---- MODULE Spec2Model ----
(***************************************************************************)
(* Model of the reset scheduler of codex_ping (src/src/monitor.ts).        *)
(*                                                                         *)
(* The module-level variables of monitor.ts are the state.  Every handler  *)
(* that the Node event loop can run is one action, taken from its entry up *)
(* to its return or to its only suspension point (the await of pingCodex); *)
(* the code after the await is the matching "...Resume" action.  The       *)
(* clock is discrete: one unit of `now` is 1/MsPerSec of a second.         *)
(*                                                                         *)
(* An optional value (T | null, T | undefined) is a sequence of length at  *)
(* most one: None is null/undefined, Some(x) is the value x.               *)
(***************************************************************************)
EXTENDS Integers, FiniteSets, Sequences, TLC

VARIABLES
    now,              \* Date.now()
    auth,             \* whether loadAuth() currently returns credentials
    started,          \* whether startMonitoring has run
    enabled,          \* primaryEnabled / secondaryEnabled, as enabled[type]
    resetTime,        \* primaryResetTime / secondaryResetTime, as resetTime[type]
    timer,            \* primaryTimer / secondaryTimer: the stored handles
    timers,           \* the timers of the event loop that are armed and not fired
    pings,            \* the pingCodex calls in flight, per awaiting continuation
    lastPingTime,
    pingCount,
    lastLimits,
    last,             \* the handler that ran last and what it did (history)
    toggles,          \* the toggle messages received so far (history)
    authChanges,      \* the changes of auth.json so far (history)
    reader            \* the response that LimitReader is given and what it returned

vars == <<now, auth, started, enabled, resetTime, timer, timers, pings,
          lastPingTime, pingCount, lastLimits, last, toggles, authChanges, reader>>

----------------------------------------------------------------------------
(* Bounds of the model *)

(* The clock runs from StartTime to MaxTime *)
StartTime == 2
MaxTime == 4
(* At most MaxTimers armed timers, MaxInFlight pings in flight, MaxPings pings *)
MaxTimers == 3
MaxInFlight == 2
MaxPings == 2
(* The environment sends at most MaxToggles toggle messages and changes     *)
(* auth.json at most MaxAuthChanges times                                  *)
MaxToggles == 2
MaxAuthChanges == 1

(* Clock units per second: monitor.ts counts milliseconds (1000), the      *)
(* model a coarser unit, so that a reset lies within MaxTime.              *)
MsPerSec == 1

----------------------------------------------------------------------------
(* Values *)

None == << >>
Some(x) == << x >>
Val(o) == o[1]

Windows == {"Primary", "Secondary"}

(* A truthy number of TypeScript: not null, not undefined, not 0 (NaN      *)
(* never reaches these tests: parseHeader turns it into null).             *)
Truthy(o) == o # None /\ Val(o) # 0

Max(a, b) == IF a >= b THEN a ELSE b

(* The stored handle of a window: NoTimer is null, a timer id is the       *)
(* handle of an armed timer, Stale is the handle of a timer that has fired *)
(* or was cleared (clearTimeout of it does nothing).                       *)
NoTimer == 0
TimerIds == 1..(MaxTimers + 2)
Stale == MaxTimers + 3

----------------------------------------------------------------------------
(* The response headers and LimitReader *)

Undefined == "<undefined>"
UsedHeader == [Primary |-> "x-codex-primary-used-percent",
               Secondary |-> "x-codex-secondary-used-percent"]
ResetHeader == [Primary |-> "x-codex-primary-reset-after-seconds",
                Secondary |-> "x-codex-secondary-reset-after-seconds"]
HeaderNames == {UsedHeader[w] : w \in Windows} \cup {ResetHeader[w] : w \in Windows}

(* The header values the server is taken to send *)
UsedValues == {Undefined, "abc", "50"}
ResetValues == {Undefined, "0", "1", "-1"}
HeaderMaps ==
    {h \in [HeaderNames -> UsedValues \cup ResetValues] :
        \A w \in Windows : h[UsedHeader[w]] \in UsedValues
                           /\ h[ResetHeader[w]] \in ResetValues}

(* parseFloat on the header values above; None is NaN *)
parseFloat(v) ==
    CASE v = "50" -> Some(50)
      [] v = "0"  -> Some(0)
      [] v = "1"  -> Some(1)
      [] v = "-1" -> Some(-1)
      [] OTHER    -> None

parseHeader(headers, name) ==
    LET v == headers[name]
    IN  IF v = Undefined \/ v = "" THEN None ELSE parseFloat(v)

(* The RateLimits object: limits[type] is limits.primary / limits.secondary *)
WindowInfo(headers, type) ==
    LET p == parseHeader(headers, UsedHeader[type])
        r == parseHeader(headers, ResetHeader[type])
    IN  IF p # None
        THEN Some([used_percent |-> Val(p),
                   resets_in_seconds |-> IF Truthy(r) THEN r ELSE None])
        ELSE None

(* extractLimits returning the limits object even when it has no window *)
extractLimitsKeepingEmpty(headers) ==
    Some([type \in Windows |-> WindowInfo(headers, type)])

extractLimits(headers) ==
    LET limits == [type \in Windows |-> WindowInfo(headers, type)]
    IN  IF \E type \in Windows : limits[type] # None THEN Some(limits) ELSE None

(* The response that LimitReader is given: its headers, whether            *)
(* extractLimits has returned, and what it returned.                       *)
Response(headers) == [headers |-> headers, done |-> FALSE, limits |-> None]
NoHeaders == [name \in HeaderNames |-> Undefined]

(* The header values a response may carry when extractLimits is looked at  *)
(* on its own: absent, empty, not a number, zero, and numbers.             *)
ReaderUsedValues == {Undefined, "", "abc", "0", "50"}
ReaderResetValues == {Undefined, "abc", "0", "1", "-1"}
ReaderHeaderMaps ==
    {h \in [HeaderNames -> ReaderUsedValues \cup ReaderResetValues] :
        \A w \in Windows : h[UsedHeader[w]] \in ReaderUsedValues
                           /\ h[ResetHeader[w]] \in ReaderResetValues}

(* What pingCodex resolves to: extractLimits of the response's headers, or *)
(* null when no response was received.                                     *)
PingResults == {extractLimits(h) : h \in HeaderMaps} \cup {None}

(* limits.primary?.resets_in_seconds, for a non-null limits *)
ResetsInSeconds(limits, type) ==
    IF limits[type] = None THEN None ELSE Val(limits[type]).resets_in_seconds

----------------------------------------------------------------------------
(* The scheduler state as one record, so that the steps of a handler can   *)
(* be composed in the order the code runs them.                            *)

Conts == {<<"checkLimits", "-">>} \cup
         {<<k, type>> : k \in {"timer", "immediate"}, type \in Windows}

Cur == [enabled |-> enabled, resetTime |-> resetTime, timer |-> timer,
        timers |-> timers, pings |-> pings, lastPingTime |-> lastPingTime,
        pingCount |-> pingCount, lastLimits |-> lastLimits]

InFlight(p) == p[<<"checkLimits", "-">>] + p[<<"timer", "Primary">>] + p[<<"timer", "Secondary">>]
               + p[<<"immediate", "Primary">>] + p[<<"immediate", "Secondary">>]

FreeId(ts) == CHOOSE i \in TimerIds :
                 /\ \A t \in ts : t.id # i
                 /\ \A j \in TimerIds : j < i => \E t \in ts : t.id = j

(* clearTimeout(handle): the timer, if still armed, is removed; a handle   *)
(* that keeps its value refers to a timer that is no longer armed.         *)
clearTimeout(m, handle) ==
    [m EXCEPT !.timers = {t \in @ : t.id # handle},
              !.timer = [type \in Windows |->
                            IF @[type] = handle /\ handle # NoTimer THEN Stale
                            ELSE @[type]]]

(* setTimeout(callback, delay) at lines 252-283: the new timer is armed    *)
(* for now + delay and stored as the window's handle.                      *)
setTimeout(m, type, delay) ==
    LET id == FreeId(m.timers)
    IN  [m EXCEPT !.timers = @ \cup {[id |-> id, type |-> type, at |-> now + delay]},
                  !.timer[type] = id]

(* The start of a firing: pingCount++, lastPingTime = new Date(), and the  *)
(* call of pingCodex, which runs up to its await of the response.          *)
startPing(m, cont) ==
    [m EXCEPT !.pingCount = @ + 1,
              !.lastPingTime = Some(now),
              !.pings[cont] = @ + 1]

(* schedulePing with the immediate branch replaced by a timer of delay 0 *)
schedulePingByZeroDelayTimer(m, rt, type) ==
    IF ~Truthy(rt) THEN m
    ELSE IF ~m.enabled[type] THEN m
    ELSE setTimeout(m, type, Max(0, Val(rt) - now))

schedulePing(m, rt, type) ==
    IF ~Truthy(rt) THEN m
    ELSE IF ~m.enabled[type] THEN m
    ELSE LET delay == Max(0, Val(rt) - now)
         IN  IF delay > 0 THEN setTimeout(m, type, delay)
             ELSE IF auth THEN startPing(m, <<"immediate", type>>)
             ELSE m

(* The reconcile of one window: lines 262-268 (264-268 for primary,        *)
(* 269-273 for secondary), 297-308 and 332-345.                            *)
newReset(limits, type) ==
    LET secs == ResetsInSeconds(limits, type)
    IN  IF Truthy(secs) THEN Some(now + Val(secs) * MsPerSec) ELSE None

(* The reconcile of one window that keeps the resetTime of a disabled window *)
reconcileWindowSkippingDisabled(m, limits, type) ==
    LET new == newReset(limits, type)
    IN  IF new # m.resetTime[type] /\ m.enabled[type]
        THEN LET m1 == IF m.timer[type] # NoTimer
                       THEN clearTimeout(m, m.timer[type]) ELSE m
                 m2 == [m1 EXCEPT !.resetTime[type] = new]
             IN  schedulePing(m2, new, type)
        ELSE m

reconcileWindow(m, limits, type) ==
    LET new == newReset(limits, type)
    IN  IF new # m.resetTime[type]
        THEN LET m1 == IF m.timer[type] # NoTimer
                       THEN clearTimeout(m, m.timer[type]) ELSE m
                 m2 == [m1 EXCEPT !.resetTime[type] = new]
             IN  IF m2.enabled[type] THEN schedulePing(m2, new, type) ELSE m2
        ELSE m

(* lastLimits = limits; then the reconcile of primary and of secondary *)
reconciled(m, result) ==
    LET limits == Val(result)
        m1 == [m EXCEPT !.lastLimits = result]
        m2 == reconcileWindow(m1, limits, "Primary")
    IN  reconcileWindow(m2, limits, "Secondary")

(* reconcile that takes a null result for limits without windows *)
reconcileClearingOnNull(m, result) ==
    IF result = None
    THEN [m EXCEPT !.lastLimits = None, !.resetTime = [type \in Windows |-> None]]
    ELSE reconciled(m, result)

(* if (limits) { ... }: a null result changes nothing *)
reconcile(m, result) ==
    IF result = None THEN m ELSE reconciled(m, result)

----------------------------------------------------------------------------
(* The handlers *)

InitScheduler ==
    /\ now = StartTime
    /\ auth \in BOOLEAN
    /\ started = FALSE
    /\ enabled = [type \in Windows |-> TRUE]
    /\ resetTime = [type \in Windows |-> None]
    /\ timer = [type \in Windows |-> NoTimer]
    /\ timers = {}
    /\ pings = [c \in Conts |-> 0]
    /\ lastPingTime = None
    /\ pingCount = 0
    /\ lastLimits = None
    /\ last = [op |-> "load", type |-> "-", arg |-> "-"]
    /\ toggles = 0
    /\ authChanges = 0

Init == InitScheduler /\ reader = Response(NoHeaders)

(* The handler's result m becomes the state, within the model's bounds *)
Commit(m, l) ==
    /\ Cardinality(m.timers) <= MaxTimers
    /\ InFlight(m.pings) <= MaxInFlight
    /\ m.pingCount <= MaxPings
    /\ enabled' = m.enabled
    /\ resetTime' = m.resetTime
    /\ timer' = m.timer
    /\ timers' = m.timers
    /\ pings' = m.pings
    /\ lastPingTime' = m.lastPingTime
    /\ pingCount' = m.pingCount
    /\ lastLimits' = m.lastLimits
    /\ last' = l

Outcome(result) == IF result = None THEN "null" ELSE "limits"

(* startMonitoring: the status bar's interval is set and checkLimits is    *)
(* called once; checkLimits runs up to its await of pingCodex.             *)
checkLimits(m) ==
    IF ~auth THEN m ELSE [m EXCEPT !.pings[<<"checkLimits", "-">>] = @ + 1]

startMonitoring ==
    /\ ~started
    /\ started' = TRUE
    /\ Commit(checkLimits(Cur), [op |-> "startMonitoring", type |-> "-", arg |-> "-"])
    /\ UNCHANGED <<now, auth, toggles, authChanges, reader>>

(* checkLimits after its await: lines 325-347 *)
checkLimitsResume(result) ==
    /\ pings[<<"checkLimits", "-">>] > 0
    /\ LET m1 == [Cur EXCEPT !.pings[<<"checkLimits", "-">>] = @ - 1]
       IN  Commit(reconcile(m1, result),
                  [op |-> "checkLimitsResume", type |-> "-", arg |-> Outcome(result)])
    /\ UNCHANGED <<now, auth, started, toggles, authChanges, reader>>

(* The status bar's interval (line 360): updateStatusBar reads the state   *)
(* and writes the status bar only.                                         *)
statusBarInterval ==
    /\ started
    /\ UNCHANGED vars

(* The timer callback without the test of loadAuth()'s result *)
timerFiredWithoutAuthTest(m, t) ==
    startPing(clearTimeout(m, t.id), <<"timer", t.type>>)

(* The timer callback up to its await: lines 253-258, and 278-279 when     *)
(* there are no credentials.  The timer is no longer armed once it fires.  *)
timerFired(m, t) ==
    LET m1 == clearTimeout(m, t.id)
    IN  IF auth THEN startPing(m1, <<"timer", t.type>>)
        ELSE [m1 EXCEPT !.timer[t.type] = NoTimer]

(* The timer callback held back while any ping is in flight *)
timerFireWhenIdle(t) ==
    /\ t \in timers
    /\ now >= t.at
    /\ InFlight(pings) = 0
    /\ Commit(timerFired(Cur, t),
              [op |-> "timerFire", type |-> t.type, arg |-> IF auth THEN "ping" ELSE "skip"])
    /\ UNCHANGED <<now, auth, started, toggles, authChanges, reader>>

timerFire(t) ==
    /\ t \in timers
    /\ now >= t.at
    /\ Commit(timerFired(Cur, t),
              [op |-> "timerFire", type |-> t.type, arg |-> IF auth THEN "ping" ELSE "skip"])
    /\ UNCHANGED <<now, auth, started, toggles, authChanges, reader>>

(* The timer callback after its await, clearing the window's timer before  *)
(* it forgets the handle                                                   *)
timerResumedClearingTimer(m, type, result) ==
    LET m1 == [m EXCEPT !.pings[<<"timer", type>>] = @ - 1]
        m2 == reconcile(m1, result)
    IN  [clearTimeout(m2, m2.timer[type]) EXCEPT !.timer[type] = NoTimer]

(* The timer callback after its await: lines 259-279 *)
timerResumed(m, type, result) ==
    LET m1 == [m EXCEPT !.pings[<<"timer", type>>] = @ - 1]
        m2 == reconcile(m1, result)
    IN  [m2 EXCEPT !.timer[type] = NoTimer]

timerResume(type, result) ==
    /\ pings[<<"timer", type>>] > 0
    /\ Commit(timerResumed(Cur, type, result),
              [op |-> "timerResume", type |-> type, arg |-> Outcome(result)])
    /\ UNCHANGED <<now, auth, started, toggles, authChanges, reader>>

(* The then-callback of the immediate branch: lines 293-312 *)
immediateResume(type, result) ==
    /\ pings[<<"immediate", type>>] > 0
    /\ LET m1 == [Cur EXCEPT !.pings[<<"immediate", type>>] = @ - 1]
       IN  Commit(reconcile(m1, result),
                  [op |-> "immediateResume", type |-> type, arg |-> Outcome(result)])
    /\ UNCHANGED <<now, auth, started, toggles, authChanges, reader>>

(* onDidReceiveMessage: togglePrimary / toggleSecondary, lines 217-235 *)
toggled(m, type, flag) ==
    LET m1 == [m EXCEPT !.enabled[type] = flag]
    IN  IF ~flag /\ m1.timer[type] # NoTimer
        THEN [clearTimeout(m1, m1.timer[type]) EXCEPT !.timer[type] = NoTimer]
        ELSE IF flag /\ Truthy(m1.resetTime[type])
        THEN schedulePing(m1, m1.resetTime[type], type)
        ELSE m1

toggle(type, flag) ==
    /\ started
    /\ toggles < MaxToggles
    /\ toggles' = toggles + 1
    /\ Commit(toggled(Cur, type, flag),
              [op |-> "toggle", type |-> type, arg |-> IF flag THEN "on" ELSE "off"])
    /\ UNCHANGED <<now, auth, started, authChanges, reader>>

(* The environment: time passes; auth.json is written or removed.  These   *)
(* are no handlers of the program and leave `last` as it is.               *)
Tick ==
    /\ now < MaxTime
    /\ now' = now + 1
    /\ UNCHANGED <<reader, last, toggles, authChanges, auth, started, enabled, resetTime, timer, timers, pings,
                   lastPingTime, pingCount, lastLimits>>

authChange ==
    /\ authChanges < MaxAuthChanges
    /\ authChanges' = authChanges + 1
    /\ auth' = ~auth
    /\ UNCHANGED <<reader, last, toggles, now, started, enabled, resetTime, timer, timers, pings,
                   lastPingTime, pingCount, lastLimits>>

Next ==
    \/ startMonitoring
    \/ \E result \in PingResults : checkLimitsResume(result)
    \/ statusBarInterval
    \/ \E t \in timers : timerFire(t)
    \/ \E type \in Windows, result \in PingResults : timerResume(type, result)
    \/ \E type \in Windows, result \in PingResults : immediateResume(type, result)
    \/ \E type \in Windows, flag \in BOOLEAN : toggle(type, flag)
    \/ Tick
    \/ authChange

Spec == Init /\ [][Next]_vars

(* LimitReader on its own: a response arrives with any of the headers      *)
(* above and pingCodex returns extractLimits of them (lines 88 and 91).    *)
ReaderInit ==
    /\ InitScheduler
    /\ \E h \in ReaderHeaderMaps : reader = Response(h)

readResponse ==
    /\ ~reader.done
    /\ reader' = [reader EXCEPT !.done = TRUE, !.limits = extractLimits(reader.headers)]
    /\ UNCHANGED <<now, auth, started, enabled, resetTime, timer, timers, pings,
                   lastPingTime, pingCount, lastLimits, last, toggles, authChanges>>

ReaderSpec == ReaderInit /\ [][readResponse]_vars

(* The environment that C9 supposes: credentials stay present and no      *)
(* toggle message arrives.  The event loop runs a timer that is due, a     *)
(* ping in flight completes and time passes.                               *)
SteadyNext ==
    \/ startMonitoring
    \/ \E result \in PingResults : checkLimitsResume(result)
    \/ statusBarInterval
    \/ \E t \in timers : timerFire(t)
    \/ \E type \in Windows, result \in PingResults : timerResume(type, result)
    \/ \E type \in Windows, result \in PingResults : immediateResume(type, result)
    \/ Tick

(* The extension loads with credentials in auth.json *)
SteadyInit == Init /\ auth = TRUE

SteadySpec ==
    /\ SteadyInit
    /\ [][SteadyNext]_vars
    /\ WF_vars(Tick)
    /\ \A type \in Windows : WF_vars(\E t \in timers : t.type = type /\ timerFire(t))
    /\ WF_vars(\E result \in PingResults : checkLimitsResume(result))
    /\ \A type \in Windows :
          /\ WF_vars(\E result \in PingResults : timerResume(type, result))
          /\ WF_vars(\E result \in PingResults : immediateResume(type, result))

TypeOK ==
    /\ now \in StartTime..MaxTime
    /\ auth \in BOOLEAN /\ started \in BOOLEAN
    /\ enabled \in [Windows -> BOOLEAN]
    /\ \A type \in Windows : resetTime[type] = None \/ Val(resetTime[type]) \in Int
    /\ timer \in [Windows -> {NoTimer, Stale} \cup TimerIds]
    /\ \A t \in timers : t.id \in TimerIds /\ t.type \in Windows /\ t.at > StartTime
    /\ pingCount \in 0..MaxPings

----------------------------------------------------------------------------
(* Vocabulary of the claims *)

Pending(type) == {t \in timers : t.type = type}

(* The step is a run of a handler (not of the clock or of auth.json); the  *)
(* handler and its input are then the ones that last' records.             *)
HandlerStep == now' = now /\ authChanges' = authChanges

Handled(op, type, arg) ==
    HandlerStep /\ last' = [op |-> op, type |-> type, arg |-> arg]

ResumeOps == {"checkLimitsResume", "timerResume", "immediateResume"}

(* The step is a reconcile: the completion of a ping, in checkLimits or in *)
(* a firing, that resolved to limits; lastLimits' are those limits.        *)
ReconcileStep == HandlerStep /\ last'.op \in ResumeOps /\ last'.arg = "limits"

(* The continuation that the completion recorded in l resumed *)
ContOf(l) ==
    CASE l.op = "checkLimitsResume" -> <<"checkLimits", "-">>
      [] l.op = "timerResume"       -> <<"timer", l.type>>
      [] OTHER                      -> <<"immediate", l.type>>

(* C1: every window has at most one armed timer in every reachable state;  *)
(* stated for the runs of polls, firings and completions in which no       *)
(* toggle message has arrived                                              *)
C1_AtMostOneTimer ==
    toggles = 0 => \A type \in Windows : Cardinality(Pending(type)) <= 1

(* C2: a reconcile whose snapshot has no resets_in_seconds for a window    *)
(* leaves that window's resetTime as it was and cancels none of its timers *)
C2_MissingResetKeepsSchedule ==
    [][\A type \in Windows :
          (ReconcileStep /\ ResetsInSeconds(Val(lastLimits'), type) = None)
          => (resetTime'[type] = resetTime[type] /\ Pending(type) \subseteq timers')]_vars

(* C3: a disabled window has no armed timer, and no timer of a disabled    *)
(* window starts a ping; stated for the first toggle message of a run      *)
C3_DisabledHasNoTimer ==
    toggles <= 1 => \A type \in Windows :
        /\ ~enabled[type] => Pending(type) = {}
        /\ (last.op = "timerFire" /\ last.type = type /\ last.arg = "ping")
           => enabled[type]

(* C4: disabling a window with a resetTime still ahead and enabling it     *)
(* again, with no handler in between, keeps resetTime and leaves exactly   *)
(* one armed timer for the window, due at that resetTime                   *)
C4_ReenableRestoresDeadline ==
    [][\A type \in Windows :
          (/\ last = [op |-> "toggle", type |-> type, arg |-> "off"]
           /\ resetTime[type] # None /\ Val(resetTime[type]) > now
           /\ Handled("toggle", type, "on"))
          => (/\ resetTime'[type] = resetTime[type]
              /\ \E t \in timers' :
                    /\ {u \in timers' : u.type = type} = {t}
                    /\ t.at = Val(resetTime[type]))]_vars

(* C5: the completion of a firing whose ping failed (pingCodex resolved to *)
(* null) leaves the resetTime of both windows, lastLimits and pingCount as *)
(* they were, and the start of the firing added exactly one to pingCount   *)
C5_FailedPingKeepsState ==
    [][/\ \A type \in Windows :
             (Handled("timerResume", type, "null") \/ Handled("immediateResume", type, "null"))
             => (resetTime' = resetTime /\ lastLimits' = lastLimits
                 /\ pingCount' = pingCount)
       /\ \A type \in Windows :
             Handled("timerFire", type, "ping") => pingCount' = pingCount + 1]_vars

C5_Witness ==
    /\ last = [op |-> "timerResume", type |-> "Primary", arg |-> "null"]
    /\ lastLimits # None
    /\ resetTime["Primary"] # None /\ resetTime["Secondary"] # None
    /\ pingCount = 1

(* C6: without toggles, a timer of a window starts a ping only once the    *)
(* clock has reached the window's resetTime, and while an enabled window's *)
(* resetTime is still ahead exactly one timer is armed for it, due at that *)
(* resetTime: the firing is neither early, nor lost, nor duplicated        *)
C6_FiresOnceAtResetTime ==
    toggles = 0 => \A type \in Windows :
        /\ (last.op = "timerFire" /\ last.type = type /\ last.arg = "ping"
            /\ resetTime[type] # None)
           => now >= Val(resetTime[type])
        /\ (enabled[type] /\ resetTime[type] # None /\ now < Val(resetTime[type]))
           => \E t \in timers : Pending(type) = {t} /\ t.at = Val(resetTime[type])

(* The reconcile of this step arms the window with a resetTime not ahead *)
ArmsDue(type) ==
    LET secs == ResetsInSeconds(Val(lastLimits'), type)
        new == IF Truthy(secs) THEN Some(now + Val(secs) * MsPerSec) ELSE None
    IN  new # resetTime[type] /\ enabled[type] /\ Truthy(new) /\ Val(new) <= now

(* The toggle message of this step arms the window with a resetTime not ahead *)
EnableArmsDue(type) ==
    Handled("toggle", type, "on") /\ Truthy(resetTime[type]) /\ Val(resetTime[type]) <= now

ImmediatePings(p, type) == p[<<"immediate", type>>]

(* C7 as claimed: whenever a window is armed with resetTime <= now, the    *)
(* firing starts within that handler (pingCount incremented, lastPingTime  *)
(* set, the ping in flight) and no timer is created for the window         *)
C7_DueArmingFiresAtOnce ==
    [][/\ ReconcileStep
          => /\ pingCount' = pingCount + Cardinality({w \in Windows : ArmsDue(w)})
             /\ \A type \in Windows :
                   ArmsDue(type)
                   => /\ ImmediatePings(pings', type)
                         = ImmediatePings([pings EXCEPT ![ContOf(last')] = @ - 1], type) + 1
                      /\ lastPingTime' = Some(now)
                      /\ {t \in timers' : t.type = type} \subseteq timers
       /\ \A type \in Windows :
             EnableArmsDue(type)
             => /\ pingCount' = pingCount + 1
                /\ ImmediatePings(pings', type) = ImmediatePings(pings, type) + 1
                /\ lastPingTime' = Some(now)
                /\ timers' = timers]_vars

(* C7 as amended: the same when loadAuth() returns credentials; when it    *)
(* returns none, the arming starts no ping and creates no timer            *)
C7_DueArmingFiresAtOnceWithAuth ==
    [][/\ ReconcileStep
          => /\ pingCount' = pingCount +
                    (IF auth THEN Cardinality({w \in Windows : ArmsDue(w)}) ELSE 0)
             /\ \A type \in Windows :
                   ArmsDue(type)
                   => /\ ImmediatePings(pings', type)
                         = ImmediatePings([pings EXCEPT ![ContOf(last')] = @ - 1], type)
                           + (IF auth THEN 1 ELSE 0)
                      /\ auth => lastPingTime' = Some(now)
                      /\ {t \in timers' : t.type = type} \subseteq timers
       /\ \A type \in Windows :
             EnableArmsDue(type)
             => /\ pingCount' = pingCount + (IF auth THEN 1 ELSE 0)
                /\ ImmediatePings(pings', type)
                   = ImmediatePings(pings, type) + (IF auth THEN 1 ELSE 0)
                /\ auth => lastPingTime' = Some(now)
                /\ ~auth => lastPingTime' = lastPingTime
                /\ timers' = timers]_vars

(* A reconcile in checkLimits has just armed a window whose resetTime was  *)
(* not ahead: its ping is in flight and it has no timer                    *)
C7_Witness ==
    /\ last.op = "checkLimitsResume"
    /\ \E type \in Windows :
          /\ resetTime[type] # None /\ Val(resetTime[type]) <= now
          /\ ImmediatePings(pings, type) = 1
          /\ Pending(type) = {}
          /\ lastPingTime = Some(now)
          /\ pingCount = 1

(* C8: without toggles, when a reconcile gives an enabled window the same  *)
(* resets_in_seconds as the reconcile before it did, at a later time, the  *)
(* window's resetTime becomes the new candidate and exactly one timer, due *)
(* at the new candidate, is armed for the window                           *)
C8_SameSecondsLaterRearms ==
    [][\A type \in Windows :
          (/\ toggles = 0
           /\ ReconcileStep
           /\ enabled[type]
           /\ lastLimits # None
           /\ ResetsInSeconds(Val(lastLimits), type) # None
           /\ Val(ResetsInSeconds(Val(lastLimits), type)) > 0
           /\ ResetsInSeconds(Val(lastLimits'), type) = ResetsInSeconds(Val(lastLimits), type)
           /\ resetTime[type] # None
           /\ Val(resetTime[type])
              < now + Val(ResetsInSeconds(Val(lastLimits), type)) * MsPerSec)
          => LET new == now + Val(ResetsInSeconds(Val(lastLimits), type)) * MsPerSec
             IN  /\ resetTime'[type] = Some(new)
                 /\ \E t \in timers' :
                       /\ {u \in timers' : u.type = type} = {t}
                       /\ t.at = new]_vars

(* The completion of a firing of the window resolved to limits with a     *)
(* resets_in_seconds for the window, which is enabled                      *)
FiringReconciles(type) ==
    /\ HandlerStep
    /\ last'.op \in {"timerResume", "immediateResume"}
    /\ last'.type = type /\ last'.arg = "limits"
    /\ enabled[type]
    /\ ResetsInSeconds(Val(lastLimits'), type) # None

Rearmed(type) ==
    LET new == now + Val(ResetsInSeconds(Val(lastLimits'), type)) * MsPerSec
    IN  /\ resetTime'[type] = Some(new)
        /\ \E t \in timers' : t.type = type /\ t.at = new

C10_PollRecurs ==
    started => ENABLED startMonitoring

(* The step is a cycle that found no credentials: the poll of              *)
(* startMonitoring or the firing of a timer                                *)
SkippedCycle ==
    \/ HandlerStep /\ last'.op = "startMonitoring" /\ ~auth
    \/ HandlerStep /\ last'.op = "timerFire" /\ last'.arg = "skip"

(* C11: a poll or a timer firing that finds no credentials issues no ping  *)
(* and leaves pingCount, lastPingTime, lastLimits and the resetTime of     *)
(* both windows as they were                                               *)
C11_NoCredentialsSkipsCycle ==
    [][SkippedCycle
       => /\ pings' = pings
          /\ pingCount' = pingCount
          /\ lastPingTime' = lastPingTime
          /\ lastLimits' = lastLimits
          /\ resetTime' = resetTime]_vars

(* A timer of a window with a known resetTime has fired without            *)
(* credentials, after a poll that succeeded                                *)
C11_Witness ==
    /\ last.op = "timerFire" /\ last.arg = "skip"
    /\ resetTime[last.type] # None
    /\ pingCount = 0 /\ lastLimits # None
    /\ InFlight(pings) = 0

(* The header value is a decimal numeral *)
Numeric(v) == v \in {"0", "1", "-1", "50"}

UsedParses(type) == Numeric(reader.headers[UsedHeader[type]])
ResetParses(type) == Numeric(reader.headers[ResetHeader[type]])

(* C12: extractLimits returns null exactly when the used-percent header of *)
(* neither window is a number; otherwise the snapshot has exactly the      *)
(* windows whose used-percent header is a number, so at least one          *)
C12_NullIffNoWindowParses ==
    reader.done =>
        /\ reader.limits = None <=> ~ \E type \in Windows : UsedParses(type)
        /\ reader.limits # None =>
              /\ \A type \in Windows :
                    Val(reader.limits)[type] # None <=> UsedParses(type)
              /\ \E type \in Windows : Val(reader.limits)[type] # None

(* A response whose secondary used-percent is 0 and whose primary one is   *)
(* not a number was read: the snapshot has the secondary window only       *)
C12_Witness ==
    /\ reader.done
    /\ reader.headers[UsedHeader["Primary"]] = "abc"
    /\ reader.headers[UsedHeader["Secondary"]] = "0"
    /\ reader.limits # None
    /\ Val(reader.limits)["Primary"] = None
    /\ Val(reader.limits)["Secondary"] # None
    /\ Val(Val(reader.limits)["Secondary"]).used_percent = 0

(* C13: for every window whose used-percent header is a number, the        *)
(* snapshot has resets_in_seconds for the window exactly when its          *)
(* reset-after-seconds header is a number, the number 0 included           *)
C13_ResetIncludedIffParses ==
    reader.done =>
        \A type \in Windows :
            UsedParses(type)
            => (Val(Val(reader.limits)[type]).resets_in_seconds # None
                <=> ResetParses(type))

(* C14: whenever a window has an armed timer, the window's stored handle   *)
(* is the handle of that timer; stated for the runs without toggle         *)
(* messages                                                                *)
C14_HandleTracksPendingTimer ==
    toggles = 0 => \A type \in Windows : \A t \in Pending(type) : timer[type] = t.id

(* C15: a toggle message that enables a window that is enabled already     *)
(* changes nothing: it arms no timer and starts no ping                    *)
C15_EnableWhenEnabledIsNoOp ==
    [][\A type \in Windows :
          (Handled("toggle", type, "on") /\ enabled[type])
          => /\ timers' = timers /\ timer' = timer
             /\ pings' = pings /\ pingCount' = pingCount
             /\ lastPingTime' = lastPingTime
             /\ resetTime' = resetTime /\ enabled' = enabled]_vars

(* The step is the completion of a firing of the window (of its timer or   *)
(* of its immediate branch) that resolved to limits                        *)
FiringCompletes(type) ==
    /\ HandlerStep
    /\ last'.op \in {"timerResume", "immediateResume"}
    /\ last'.type = type /\ last'.arg = "limits"

(* The candidate resetTime that this step's reconcile computes for the window *)
Candidate(type) ==
    LET secs == ResetsInSeconds(Val(lastLimits'), type)
    IN  IF Truthy(secs) THEN Some(now + Val(secs) * MsPerSec) ELSE None

(* The timers of the window that this step has armed *)
ArmedNow(type) == {t \in timers' : t.type = type} \ timers

WithinBounds == pingCount < MaxPings /\ InFlight(pings) < MaxInFlight

(* C17: the start of a firing of a window leaves the other window's        *)
(* resetTime, handle and timers as they were, and while the ping of a      *)
(* window's timer is in flight a timer of the other window that is due can *)
(* still fire                                                              *)
C17_StalledPingBlocksNoOtherWindow ==
    /\ [][\A type \in Windows :
             (HandlerStep /\ last'.op = "timerFire" /\ last'.type = type)
             => \A other \in Windows \ {type} :
                   /\ resetTime'[other] = resetTime[other]
                   /\ timer'[other] = timer[other]
                   /\ {t \in timers' : t.type = other} = Pending(other)]_vars
    /\ [](\A type \in Windows : \A t \in timers :
             (pings[<<"timer", type>>] > 0 /\ t.type # type /\ now >= t.at /\ WithinBounds)
             => ENABLED timerFire(t))

(* The timer of Secondary has fired while the ping of Primary's timer was  *)
(* in flight, and both pings are in flight                                 *)
C17_Witness ==
    /\ last = [op |-> "timerFire", type |-> "Secondary", arg |-> "ping"]
    /\ pings[<<"timer", "Primary">>] = 1
    /\ pings[<<"timer", "Secondary">>] = 1
    /\ resetTime["Primary"] # None /\ resetTime["Secondary"] # None

(* The pings in flight that firings of the window started *)
FiringsInFlight(p, type) == p[<<"timer", type>>] + p[<<"immediate", type>>]

(* C18: an enabled window with a known resetTime and no ping of a firing   *)
(* of its own in flight has an armed timer; stated for the runs without    *)
(* toggle messages and without changes of auth.json, in the state that the *)
(* completion of a timer's firing whose ping failed leaves                 *)
C18_EnabledKnownResetIsArmed ==
    (toggles = 0 /\ authChanges = 0 /\ last.op = "timerResume" /\ last.arg = "null") =>
        \A type \in Windows :
            (enabled[type] /\ resetTime[type] # None /\ FiringsInFlight(pings, type) = 0)
            => Pending(type) # {}

(* This step leaves the scheduler as it was with the two windows exchanged *)
WindowsExchanged ==
    /\ timers = {} /\ timers' = {}
    /\ pings'[<<"checkLimits", "-">>] = pings[<<"checkLimits", "-">>]
    /\ \A type \in Windows : \A other \in Windows \ {type} :
          /\ resetTime'[type] = resetTime[other]
          /\ enabled'[type] = enabled[other]
          /\ pings'[<<"timer", type>>] = pings[<<"timer", other>>]
          /\ pings'[<<"immediate", type>>] = pings[<<"immediate", other>>]

(* C19: while time stands still, the completion of an immediate fire never *)
(* starts a further immediate fire in a state that is the state before it  *)
(* with the two windows exchanged, for such a step can be taken again and  *)
(* again, the windows taking turns                                         *)
C19_ImmediateFiresDoNotCycle ==
    [][(toggles = 0 /\ now = StartTime /\ HandlerStep /\ last'.op = "immediateResume")
       => ~(pingCount' = pingCount + 1 /\ WindowsExchanged)]_vars

(* C20: at most one ping of a window's firings is in flight; stated for    *)
(* the first enabling of a window, which the run's first toggle message    *)
(* had disabled, while the ping of the window's timer is in flight         *)
C20_OneFiringPingPerWindow ==
    [][\A type \in Windows :
          (/\ Handled("toggle", type, "on")
           /\ ~enabled[type] /\ toggles = 1
           /\ pings[<<"timer", type>>] = 1
           /\ FiringsInFlight(pings, type) = 1)
          => FiringsInFlight(pings', type) <= 1]_vars

====
